---- MODULE Spec2Model ----
(***************************************************************************)
(* prefect.utilities.debug: is_serializable, raise_on_exception and        *)
(* make_return_failed_handler, as state machines.                          *)
(*                                                                         *)
(* Spec            one caller of is_serializable, calling again and again. *)
(* SpecConcurrent  NumProcs callers of is_serializable at the same time,   *)
(*                 over one temporary directory (the files are shared).    *)
(* SpecDebug       a local run that enters and leaves raise_on_exception() *)
(*                 blocks while the task runner reports state transitions  *)
(*                 to a handler built by make_return_failed_handler.       *)
(***************************************************************************)
EXTENDS Integers, FiniteSets, Sequences, TLC

\* ------------------------------------------------------------------ bounds
NumProcs == 2
NumNames == 4
NumTasks == 2
MaxDepth == 3
MaxFaults == 1

Procs == 1..NumProcs
Names == 1..NumNames
Tasks == 1..NumTasks

\* ------------------------------------------------------------------ state
VARIABLES
    \* is_serializable
    pc,             \* the statement each caller is about to execute
    obj,            \* the obj argument (its kind; the object is (caller, kind))
    raise_on_error, \* the raise_on_error argument
    binary_file,    \* the name mkstemp returned at line 41 (0: not yet)
    script_file,    \* the name mkstemp returned at line 42 (0: not yet)
    fs,             \* the temporary directory: name -> file
    child,          \* the child process of subprocess.check_output
    exc,            \* the exception being handled or propagated
    pending,        \* how the try statement completes once finally has run
    result,         \* what the call handed to its caller
    fault,          \* the last failure of the call ("none": none so far)
    faults,         \* environment failures injected so far
    \* raise_on_exception
    context,        \* prefect.context's raise_on_exception entry
    saved,          \* the previous contexts of the open blocks, innermost last
    raising,        \* an exception is unwinding out of the block body
    entered,        \* the flag's value just before each open block was entered
    \* make_return_failed_handler
    failed_tasks_set,   \* the caller's set: task -> number of occurrences
    initial_set,        \* the set's content when the handler was built
    invoked,            \* the last invocation: task, old_state, new_state, return value
    reported            \* tasks some invocation saw with a Failed or Retrying new_state

ser_vars == <<pc, obj, raise_on_error, binary_file, script_file, fs, child,
              exc, pending, result, fault, faults>>
ctx_vars == <<context, saved, raising, entered>>
hdl_vars == <<failed_tasks_set, initial_set, invoked, reported>>
vars == <<ser_vars, ctx_vars, hdl_vars>>

\* ------------------------------------------------------- is_serializable
\* The objects a caller can pass: one that round-trips, one cloudpickle.dump
\* rejects, one that is dumped but cannot be loaded in a fresh interpreter.
Kinds == {"plain", "undumpable", "unloadable"}

CanDump(k) == k # "undumpable"
CanLoad(k) == k = "plain"

NoFile == [tag |-> "absent", owner |-> 0, oid |-> 0, kind |-> "", path |-> 0]
EmptyFile(p) == [tag |-> "empty", owner |-> p, oid |-> 0, kind |-> "", path |-> 0]

\* open(name, "wb") / open(name, "w"): truncates, or creates a missing file.
Truncate(f, p) == IF f.tag = "absent" THEN EmptyFile(p)
                  ELSE [f EXCEPT !.tag = "empty", !.oid = 0, !.kind = "", !.path = 0]

\* cloudpickle.dump(obj, bf) of caller p's object of kind k.
Pickle(f, p, k) == [f EXCEPT !.tag = "pickle", !.oid = p, !.kind = k, !.path = 0]
\* A write that stopped half way.
Partial(f) == [f EXCEPT !.tag = "partial"]
\* sf.write(template.format(binary_file)): the script names the payload file.
Template(f, path) == [f EXCEPT !.tag = "script", !.oid = 0, !.kind = "", !.path = path]

NoExc == [type |-> "none", output |-> ""]
OSError == [type |-> "OSError", output |-> ""]
PicklingError == [type |-> "PicklingError", output |-> ""]
CalledProcessError(out) == [type |-> "CalledProcessError", output |-> out]

NoChild == [state |-> "none", code |-> 0, output |-> "", read |-> 0]
\* The child ended by the environment (no interpreter, killed by a signal).
Killed == [state |-> "exited", code |-> 127, output |-> "", read |-> 0]

NoResult == [kind |-> "none", value |-> FALSE, exc |-> NoExc]
Returned(v) == [kind |-> "return", value |-> v, exc |-> NoExc]
Raised(e) == [kind |-> "raise", value |-> FALSE, exc |-> e]

\* tempfile.mkstemp picks any name no file has (O_CREAT | O_EXCL).
FreshNamesAny(files) == Names
FreshNames(files) == {n \in Names : files[n].tag = "absent"}

\* What the child does: python runs the script, the script loads the payload.
\* Exit code and combined output, from the files as they are when it runs.
RunScript(files, script) ==
    LET s == files[script] IN
    CASE s.tag = "absent" ->
            [state |-> "exited", code |-> 2, output |-> "no such file", read |-> 0]
      [] s.tag = "empty" -> [state |-> "exited", code |-> 0, output |-> "", read |-> 0]
      [] s.tag = "script" ->
            LET b == files[s.path] IN
            IF b.tag = "pickle" /\ CanLoad(b.kind)
            THEN [state |-> "exited", code |-> 0, output |-> "", read |-> b.oid]
            ELSE [state |-> "exited", code |-> 1, output |-> "traceback", read |-> b.oid]
      [] OTHER -> [state |-> "exited", code |-> 1, output |-> "traceback", read |-> 0]

\* Lines 54-57: except subprocess.CalledProcessError.
InnerHandler(roe) == IF roe THEN "raise" ELSE "return_false"
\* Lines 58-61: except Exception.
OuterHandlerSwallow(roe) == "return_false"
OuterHandler(roe) == IF roe THEN "raise" ELSE "return_false"

\* Line 51: check_output returns only when the child has exited.
NoWait == "unlink_b"
AfterSpawn == "wait"

\* The try statement's completion after the finally block (lines 62-65).
Complete(how, e) ==
    CASE how = "fallthrough" -> Returned(TRUE)
      [] how = "return_false" -> Returned(FALSE)
      [] how = "raise" -> Raised(e)

\* The except clauses a failure in the try body goes through (lines 54-61):
\* how the try statement will complete, and with which exception.
Handle(roe, e) ==
    LET how == IF e.type = "CalledProcessError" /\ InnerHandler(roe) # "raise"
               THEN "return_false"
               ELSE OuterHandler(roe)
    IN [pending |-> how, exc |-> IF how = "raise" THEN e ELSE NoExc]

\* An environment failure (disk, descriptors, permissions, a killed child)
\* may strike any system call; the model injects at most MaxFaults of them.
CanFail == faults < MaxFaults

Fail(p, what) ==
    /\ fault' = [fault EXCEPT ![p] = what]
    /\ faults' = IF what \in {"encode", "decode", "names"} THEN faults ELSE faults + 1

NoFail == UNCHANGED <<fault, faults>>

\* Line 16: a caller enters is_serializable(obj, raise_on_error).
Call(p) ==
    /\ pc[p] = "idle"
    /\ \E k \in Kinds, roe \in BOOLEAN :
          /\ obj' = [obj EXCEPT ![p] = k]
          /\ raise_on_error' = [raise_on_error EXCEPT ![p] = roe]
    /\ pc' = [pc EXCEPT ![p] = "mkstemp_b"]
    /\ UNCHANGED <<binary_file, script_file, fs, child, exc, pending, result,
                   fault, faults, ctx_vars, hdl_vars>>

\* Line 41. Outside the try statement: a failure propagates as it is.
MkstempBinary(p) ==
    /\ pc[p] = "mkstemp_b"
    /\ \/ /\ \E n \in FreshNames(fs) :
                /\ fs' = [fs EXCEPT ![n] = EmptyFile(p)]
                /\ binary_file' = [binary_file EXCEPT ![p] = n]
          /\ pc' = [pc EXCEPT ![p] = "mkstemp_s"]
          /\ NoFail
          /\ UNCHANGED result
       \/ /\ \/ CanFail /\ Fail(p, "alloc")
             \/ FreshNames(fs) = {} /\ Fail(p, "names")
          /\ result' = [result EXCEPT ![p] = Raised(OSError)]
          /\ pc' = [pc EXCEPT ![p] = "done"]
          /\ UNCHANGED <<fs, binary_file>>
    /\ UNCHANGED <<obj, raise_on_error, script_file, child, exc, pending,
                   ctx_vars, hdl_vars>>

\* Lines 42-44. The second mkstemp is outside the try statement too.
MkstempScript(p) ==
    /\ pc[p] = "mkstemp_s"
    /\ \/ /\ \E n \in FreshNames(fs) :
                /\ fs' = [fs EXCEPT ![n] = EmptyFile(p)]
                /\ script_file' = [script_file EXCEPT ![p] = n]
          /\ pc' = [pc EXCEPT ![p] = "dump"]
          /\ NoFail
          /\ UNCHANGED result
       \/ /\ \/ CanFail /\ Fail(p, "alloc")
             \/ FreshNames(fs) = {} /\ Fail(p, "names")
          /\ result' = [result EXCEPT ![p] = Raised(OSError)]
          /\ pc' = [pc EXCEPT ![p] = "done"]
          /\ UNCHANGED <<fs, script_file>>
    /\ UNCHANGED <<obj, raise_on_error, binary_file, child, exc, pending,
                   ctx_vars, hdl_vars>>

\* The try body failed with e: the except clauses run, then the finally block.
Except(p, e) ==
    /\ pending' = [pending EXCEPT ![p] = Handle(raise_on_error[p], e).pending]
    /\ exc' = [exc EXCEPT ![p] = Handle(raise_on_error[p], e).exc]
    /\ pc' = [pc EXCEPT ![p] = "unlink_b"]

\* Lines 46-47: open the payload file, dump the object, close the file.
DumpPayload(p) ==
    /\ pc[p] = "dump"
    /\ LET n == binary_file[p]
           t == Truncate(fs[n], p) IN
       \/ /\ CanDump(obj[p])
          /\ fs' = [fs EXCEPT ![n] = Pickle(t, p, obj[p])]
          /\ pc' = [pc EXCEPT ![p] = "script"]
          /\ NoFail
          /\ UNCHANGED <<exc, pending>>
       \/ /\ ~CanDump(obj[p])
          /\ fs' = [fs EXCEPT ![n] = Partial(t)]
          /\ Fail(p, "encode")
          /\ Except(p, PicklingError)
       \/ /\ CanFail
          /\ fs' = [fs EXCEPT ![n] = Partial(t)]
          /\ Fail(p, "io")
          /\ Except(p, OSError)
    /\ UNCHANGED <<obj, raise_on_error, binary_file, script_file, child,
                   result, ctx_vars, hdl_vars>>

\* Lines 48-49: open the script file, write the script, close the file.
WriteScript(p) ==
    /\ pc[p] = "script"
    /\ LET n == script_file[p]
           t == Truncate(fs[n], p) IN
       \/ /\ fs' = [fs EXCEPT ![n] = Template(t, binary_file[p])]
          /\ pc' = [pc EXCEPT ![p] = "spawn"]
          /\ NoFail
          /\ UNCHANGED <<exc, pending>>
       \/ /\ CanFail
          /\ fs' = [fs EXCEPT ![n] = Partial(t)]
          /\ Fail(p, "io")
          /\ Except(p, OSError)
    /\ UNCHANGED <<obj, raise_on_error, binary_file, script_file, child,
                   result, ctx_vars, hdl_vars>>

\* Line 51: check_output starts the shell that runs python on the script.
Spawn(p) ==
    /\ pc[p] = "spawn"
    /\ \/ /\ child' = [child EXCEPT ![p] = [NoChild EXCEPT !.state = "running"]]
          /\ pc' = [pc EXCEPT ![p] = AfterSpawn]
          /\ NoFail
          /\ UNCHANGED <<exc, pending>>
       \/ /\ CanFail
          /\ Fail(p, "spawn")
          /\ Except(p, OSError)
          /\ UNCHANGED child
    /\ UNCHANGED <<obj, raise_on_error, binary_file, script_file, fs,
                   result, ctx_vars, hdl_vars>>

\* Lines 51-57: the child runs the script to its exit (or the environment
\* ends it), and check_output returns, or raises CalledProcessError with the
\* captured output when the exit code is not zero.
CheckOutput(p) ==
    /\ pc[p] = "wait"
    /\ child[p].state = "running"
    /\ \E r \in {RunScript(fs, script_file[p])} \cup
                (IF CanFail THEN {Killed} ELSE {}) :
          /\ child' = [child EXCEPT ![p] = [r EXCEPT !.state = "exited"]]
          /\ IF r.code = 0
             THEN /\ pc' = [pc EXCEPT ![p] = "unlink_b"]
                  /\ NoFail
                  /\ UNCHANGED <<exc, pending>>
             ELSE /\ Fail(p, IF r = Killed THEN "killed" ELSE "decode")
                  /\ Except(p, CalledProcessError(r.output))
    /\ UNCHANGED <<obj, raise_on_error, binary_file, script_file, fs,
                   result, ctx_vars, hdl_vars>>

\* Line 63, in the finally block: an error here replaces the pending
\* completion and skips line 64.
UnlinkBinary(p) ==
    /\ pc[p] = "unlink_b"
    /\ LET n == binary_file[p] IN
       \/ /\ fs[n].tag # "absent"
          /\ fs' = [fs EXCEPT ![n] = NoFile]
          /\ pc' = [pc EXCEPT ![p] = "unlink_s"]
          /\ NoFail
          /\ UNCHANGED <<result, exc>>
       \/ /\ CanFail \/ fs[n].tag = "absent"
          /\ Fail(p, "unlink")
          /\ result' = [result EXCEPT ![p] = Raised(OSError)]
          /\ exc' = [exc EXCEPT ![p] = OSError]
          /\ pc' = [pc EXCEPT ![p] = "done"]
          /\ UNCHANGED fs
    /\ UNCHANGED <<obj, raise_on_error, binary_file, script_file, child,
                   pending, ctx_vars, hdl_vars>>

\* Line 64, then the completion of the try statement and line 65.
UnlinkScript(p) ==
    /\ pc[p] = "unlink_s"
    /\ LET n == script_file[p] IN
       \/ /\ fs[n].tag # "absent"
          /\ fs' = [fs EXCEPT ![n] = NoFile]
          /\ result' = [result EXCEPT ![p] = Complete(pending[p], exc[p])]
          /\ pc' = [pc EXCEPT ![p] = "done"]
          /\ NoFail
          /\ UNCHANGED exc
       \/ /\ CanFail \/ fs[n].tag = "absent"
          /\ Fail(p, "unlink")
          /\ result' = [result EXCEPT ![p] = Raised(OSError)]
          /\ exc' = [exc EXCEPT ![p] = OSError]
          /\ pc' = [pc EXCEPT ![p] = "done"]
          /\ UNCHANGED fs
    /\ UNCHANGED <<obj, raise_on_error, binary_file, script_file, child,
                   pending, ctx_vars, hdl_vars>>

\* The caller has the result; it may call again.
Finish(p) ==
    /\ pc[p] = "done"
    /\ pc' = [pc EXCEPT ![p] = "idle"]
    /\ obj' = [obj EXCEPT ![p] = ""]
    /\ raise_on_error' = [raise_on_error EXCEPT ![p] = FALSE]
    /\ binary_file' = [binary_file EXCEPT ![p] = 0]
    /\ script_file' = [script_file EXCEPT ![p] = 0]
    /\ child' = [child EXCEPT ![p] = NoChild]
    /\ exc' = [exc EXCEPT ![p] = NoExc]
    /\ pending' = [pending EXCEPT ![p] = "fallthrough"]
    /\ result' = [result EXCEPT ![p] = NoResult]
    /\ fault' = [fault EXCEPT ![p] = "none"]
    /\ UNCHANGED <<fs, faults, ctx_vars, hdl_vars>>

\* ---------------------------------------------------- raise_on_exception
\* Line 90: the keyword the block passes to prefect.context.
FlagFalse == "false"
Flag == "true"

\* prefect.context(**kwargs) as a context manager: on entry it remembers the
\* context and applies the keywords, on exit it puts the remembered context
\* back.
ContextEnter(ctx, stack, value) == [context |-> value, saved |-> Append(stack, ctx)]
ContextExit(ctx, stack) ==
    [context |-> stack[Len(stack)], saved |-> SubSeq(stack, 1, Len(stack) - 1)]

CtxInit ==
    /\ context = "unset"
    /\ saved = <<>>
    /\ raising = FALSE
    /\ entered = <<>>

\* with raise_on_exception(): the generator runs to its yield (lines 90-91).
EnterBlock ==
    /\ ~raising
    /\ Len(saved) < MaxDepth
    /\ context' = ContextEnter(context, saved, Flag).context
    /\ saved' = ContextEnter(context, saved, Flag).saved
    /\ entered' = Append(entered, context)
    /\ UNCHANGED <<raising, ser_vars, hdl_vars>>

\* The body of the innermost block ends: the generator resumes after the
\* yield and leaves its with statement.
ExitBlock ==
    /\ ~raising
    /\ Len(saved) > 0
    /\ context' = ContextExit(context, saved).context
    /\ saved' = ContextExit(context, saved).saved
    /\ entered' = SubSeq(entered, 1, Len(entered) - 1)
    /\ UNCHANGED <<raising, ser_vars, hdl_vars>>

\* The body of the innermost block raises.
RaiseInBlock ==
    /\ ~raising
    /\ Len(saved) > 0
    /\ raising' = TRUE
    /\ UNCHANGED <<context, saved, entered, ser_vars, hdl_vars>>

\* The exception is thrown into the generator at its yield, inside the with
\* statement: the context manager exits and the exception goes on outwards.
UnwindBlock ==
    /\ raising
    /\ Len(saved) > 0
    /\ context' = ContextExit(context, saved).context
    /\ saved' = ContextExit(context, saved).saved
    /\ entered' = SubSeq(entered, 1, Len(entered) - 1)
    /\ UNCHANGED <<raising, ser_vars, hdl_vars>>

\* The code around the block just left catches the exception.
Catch ==
    /\ raising
    /\ raising' = FALSE
    /\ UNCHANGED <<context, saved, entered, ser_vars, hdl_vars>>

\* --------------------------------------------- make_return_failed_handler
\* The classes of prefect.engine.state the task runner reports.
States == {"Pending", "Running", "Success", "Failed", "Retrying"}

\* Line 117: isinstance(new_state, (state.Failed, state.Retrying)).
IsFailedOnly(new_state) == new_state = "Failed"
IsFailedOrRetrying(new_state) == new_state \in {"Failed", "Retrying"}

\* Line 118: set.add.
SetAdd(set, task) == [set EXCEPT ![task] = 1]

\* Lines 117-118: what an invocation does to failed_tasks_set.
HandlerForgets(set, task, new_state) ==
    IF IsFailedOrRetrying(new_state) THEN SetAdd(set, task)
    ELSE [set EXCEPT ![task] = 0]
HandlerUpdate(set, task, new_state) ==
    IF IsFailedOrRetrying(new_state) THEN SetAdd(set, task) ELSE set

\* Line 119.
HandlerReturn(old_state, new_state) == new_state

Members(set) == {t \in Tasks : set[t] > 0}

\* make_return_failed_handler(failed_tasks_set) with the caller's set.
HdlInit(set) ==
    /\ initial_set = set
    /\ failed_tasks_set = [t \in Tasks |-> IF t \in initial_set THEN 1 ELSE 0]
    /\ invoked = [task |-> 0, old_state |-> "", new_state |-> "", returned |-> ""]
    /\ reported = {}

\* Lines 112-119: the task runner calls handler(task_runner, old_state, new_state).
Handler ==
    \E task \in Tasks, old_state \in States, new_state \in States :
        /\ failed_tasks_set' = HandlerUpdate(failed_tasks_set, task, new_state)
        /\ invoked' = [task |-> task, old_state |-> old_state, new_state |-> new_state,
                       returned |-> HandlerReturn(old_state, new_state)]
        /\ reported' = IF new_state \in {"Failed", "Retrying"}
                       THEN reported \cup {task} ELSE reported
        /\ UNCHANGED <<initial_set, ser_vars, ctx_vars>>

NextDebug == EnterBlock \/ ExitBlock \/ RaiseInBlock \/ UnwindBlock \/ Catch \/ Handler

SerInit ==
    /\ pc = [p \in Procs |-> "idle"]
    /\ obj = [p \in Procs |-> ""]
    /\ raise_on_error = [p \in Procs |-> FALSE]
    /\ binary_file = [p \in Procs |-> 0]
    /\ script_file = [p \in Procs |-> 0]
    /\ fs = [n \in Names |-> NoFile]
    /\ child = [p \in Procs |-> NoChild]
    /\ exc = [p \in Procs |-> NoExc]
    /\ pending = [p \in Procs |-> "fallthrough"]
    /\ result = [p \in Procs |-> NoResult]
    /\ fault = [p \in Procs |-> "none"]
    /\ faults = 0

Init == SerInit /\ CtxInit /\ HdlInit({})

\* One caller, calling again and again.
Solo == {p \in Procs : \A q \in Procs : p <= q}

Next ==
    \E p \in Solo :
        \/ Call(p)
        \/ MkstempBinary(p)
        \/ MkstempScript(p)
        \/ DumpPayload(p)
        \/ WriteScript(p)
        \/ Spawn(p)
        \/ CheckOutput(p)
        \/ UnlinkBinary(p)
        \/ UnlinkScript(p)
        \/ Finish(p)

Spec == Init /\ [][Next]_vars

\* Every caller makes one call, all of them at the same time.
NextConcurrent ==
    \E p \in Procs :
        \/ Call(p)
        \/ MkstempBinary(p)
        \/ MkstempScript(p)
        \/ DumpPayload(p)
        \/ WriteScript(p)
        \/ Spawn(p)
        \/ CheckOutput(p)
        \/ UnlinkBinary(p)
        \/ UnlinkScript(p)

SpecConcurrent == Init /\ [][NextConcurrent]_vars

\* A local run: raise_on_exception() blocks are entered and left while the
\* task runner reports state transitions to the handler.
InitDebug == SerInit /\ CtxInit /\ \E set \in SUBSET Tasks : HdlInit(set)

SpecDebug == InitDebug /\ [][NextDebug]_vars

\* ------------------------------------------------------------ properties
Ended(p) == pc[p] = "done"

\* The names the call of p has allocated and not yet deleted.
InUse(p) ==
    (IF pc[p] \in {"mkstemp_s", "dump", "script", "spawn", "wait", "unlink_b"}
     THEN {binary_file[p]} ELSE {})
    \cup
    (IF pc[p] \in {"dump", "script", "spawn", "wait", "unlink_b", "unlink_s"}
     THEN {script_file[p]} ELSE {})

\* The child of p ran the script, decoded the payload p wrote and exited 0.
ChildSucceeded(p) ==
    child[p].state = "exited" /\ child[p].code = 0 /\ child[p].read = p

EnvFaults == {"alloc", "names", "io", "spawn", "killed", "unlink"}

\* What is_serializable gives for an object of kind k when nothing else runs
\* and the environment does not fail.
Solitary(k, roe) ==
    IF CanDump(k) /\ CanLoad(k) THEN Returned(TRUE)
    ELSE IF ~roe THEN Returned(FALSE)
    ELSE IF ~CanDump(k) THEN Raised(PicklingError)
    ELSE Raised(CalledProcessError("traceback"))

\* C1: when a call has ended, on any exit path, neither temporary file the
\* call created still exists.
C1_NoResidualFiles ==
    \A p \in Procs :
        Ended(p) =>
            \A n \in {binary_file[p], script_file[p]} \ {0} :
                fs[n].tag = "absent" \/ fs[n].owner # p

\* C2: with raise_on_error=False a call never raises; after a failure at any
\* step it returns False.
C2_DefaultNeverRaises ==
    \A p \in Procs :
        Ended(p) /\ ~raise_on_error[p] =>
            /\ result[p].kind = "return"
            /\ fault[p] # "none" => result[p] = Returned(FALSE)

\* C3: a call returns True if and only if the payload was encoded, the
\* script written, the child spawned and the child exited with code zero;
\* with raise_on_error=False and a non-zero exit it returns False.
C3_TrueIffChildSucceeded ==
    \A p \in Procs :
        Ended(p) =>
            /\ result[p] = Returned(TRUE) <=> ChildSucceeded(p)
            /\ child[p].state = "exited" /\ child[p].code # 0 /\ ~raise_on_error[p]
                  => result[p] = Returned(FALSE)

\* C4: with raise_on_error=True every failure ends in a raised error; the
\* call never returns False, and True is the only value it can return.
C4_RaiseOnErrorNeverReturnsFalse ==
    \A p \in Procs :
        raise_on_error[p] =>
            /\ pending[p] # "return_false"
            /\ Ended(p) =>
                  /\ result[p] # Returned(FALSE)
                  /\ result[p].kind = "return" => result[p] = Returned(TRUE)
                  /\ fault[p] # "none" => result[p].kind = "raise"
                  /\ ~ChildSucceeded(p) => result[p].kind = "raise"

\* C4 witness: a raise_on_error=True call ended by raising the
\* CalledProcessError of a child that exited non-zero.
C4_Witness ==
    \E p \in Procs :
        /\ Ended(p) /\ raise_on_error[p] /\ fault[p] = "decode"
        /\ child[p].code # 0
        /\ result[p] = Raised(CalledProcessError("traceback"))

\* C5: with raise_on_error=True, an object that fails to be encoded in the
\* caller or decoded in the child makes the call raise a CalledProcessError
\* that carries the child's non-empty output.
C5_RaisesCalledProcessError ==
    \A p \in Procs :
        Ended(p) /\ raise_on_error[p] /\ fault[p] \in {"encode", "decode"} =>
            /\ result[p].kind = "raise"
            /\ result[p].exc.type = "CalledProcessError"
            /\ result[p].exc.output # ""

\* C6, names: the names in use at the same time are pairwise distinct.
C6_NamesDistinct ==
    \A p \in Procs :
        /\ 0 \notin InUse(p)
        /\ pc[p] \in {"dump", "script", "spawn", "wait", "unlink_b"}
              => binary_file[p] # script_file[p]
        /\ \A q \in Procs \ {p} : InUse(p) \cap InUse(q) = {}

\* C6, files: the files a call uses are the ones it created, with the content
\* it wrote, and its child decodes its own payload.
C6_OwnArtifacts ==
    \A p \in Procs :
        /\ \A n \in InUse(p) : fs[n].owner = p /\ fs[n].tag # "absent"
        /\ pc[p] \in {"script", "spawn", "wait"}
              => fs[binary_file[p]] = Pickle(EmptyFile(p), p, obj[p])
        /\ pc[p] \in {"spawn", "wait"}
              => fs[script_file[p]] = Template(EmptyFile(p), binary_file[p])
        /\ child[p].state = "exited" => child[p].read \in {0, p}

\* C6, results: True only for a deployable object, and without a failure of
\* the environment exactly the result of a solitary call.
C6_OwnResult ==
    \A p \in Procs :
        Ended(p) =>
            /\ result[p] = Returned(TRUE) => CanDump(obj[p]) /\ CanLoad(obj[p])
            /\ fault[p] \notin EnvFaults
                  => result[p] = Solitary(obj[p], raise_on_error[p])

\* C6, steps: a step changes (creates, writes, deletes) only files of the
\* call that takes it.
C6_TouchesOwnFilesOnly ==
    \A n \in Names :
        fs'[n] # fs[n] =>
            \E p \in Procs : pc'[p] # pc[p] /\ n \in InUse(p) \cup InUse(p)'

\* C6: in any interleaving of concurrent calls, the temporary names in use
\* at the same time are pairwise distinct, a call touches no file of another
\* call and its child reads its own payload, and each call gives the result
\* a solitary call on its object gives.
C6_ConcurrentCallsIsolated ==
    /\ [](C6_NamesDistinct /\ C6_OwnArtifacts /\ C6_OwnResult)
    /\ [][C6_TouchesOwnFilesOnly]_vars

\* C6 witness: two calls wait for their children at the same time, four
\* temporary files in use, one object deployable and the other not.
C6_Witness ==
    \E p, q \in Procs :
        /\ p # q
        /\ pc[p] = "wait" /\ pc[q] = "wait"
        /\ obj[p] = "plain" /\ obj[q] = "unloadable"
        /\ Cardinality(InUse(p) \cup InUse(q)) = 4

\* C7: every invocation returns new_state itself; the task is added exactly
\* when new_state is Failed or Retrying and the set is left alone otherwise;
\* a task invoked again is in the set once.
C7_HandlerContract ==
    /\ [](invoked.task # 0 =>
            /\ invoked.returned = invoked.new_state
            /\ invoked.new_state \in {"Failed", "Retrying"}
                  => failed_tasks_set[invoked.task] = 1)
    /\ [](\A t \in Tasks : failed_tasks_set[t] <= 1)
    /\ [][failed_tasks_set' # failed_tasks_set =>
            /\ invoked'.new_state \in {"Failed", "Retrying"}
            /\ failed_tasks_set' = [failed_tasks_set EXCEPT ![invoked'.task] = 1]]_vars

\* C7 witness: the handler was invoked with a Retrying new_state for a task
\* that was not in the caller's set, returned it, and the task is in the set.
C7_Witness ==
    /\ invoked.task # 0
    /\ invoked.task \notin initial_set
    /\ invoked.old_state = "Running" /\ invoked.new_state = "Retrying"
    /\ invoked.returned = "Retrying"
    /\ failed_tasks_set[invoked.task] = 1

\* C8: the flag is true everywhere inside a raise_on_exception() block; a
\* block exit, normal or by an exception, puts back the value the flag had
\* just before entry: still true inside an enclosing block, unset outside
\* the outermost.
C8_FlagScopedToBlock ==
    /\ [](Len(entered) > 0 => context = "true")
    /\ [][Len(entered') < Len(entered) =>
            /\ context' = entered[Len(entered)]
            /\ Len(entered') > 0 => context' = "true"
            /\ Len(entered') = 0 => context' = "unset"]_vars

\* C8 witness: an exception raised two blocks deep has left the inner block
\* and is still inside the outer one, where the flag is true.
C8_Witness ==
    /\ raising
    /\ Len(entered) = 1
    /\ context = "true"
    /\ entered = <<"unset">>

C10_SetIsInitialPlusReported ==
    /\ [](Members(failed_tasks_set) = initial_set \cup reported)
    /\ [][Members(failed_tasks_set) \subseteq Members(failed_tasks_set')]_vars

\* C10 witness: a task reported as failed earlier has now moved to Success
\* and is still in the set.
C10_Witness ==
    /\ invoked.task # 0
    /\ invoked.new_state = "Success"
    /\ invoked.task \in reported \ initial_set
    /\ failed_tasks_set[invoked.task] = 1


====
